---- MODULE Spec2Model ----
(***************************************************************************)
(* Model of the ticker price update scheduler of src/index.tsx:            *)
(* trackedTickers, updateQueue, isUpdatingPriceLoop, the drain loop        *)
(* priceUpdateLoop, the sweep fetchAllTrackedPrices, the periodic          *)
(* manageTickerUpdates tick and the fast path addTickerToTape.             *)
(*                                                                         *)
(* JavaScript runs each handler to its next await without interruption,    *)
(* so every action below is one such run: from a call or a resumption to   *)
(* the next await or return.  Awaited oracle calls and timers are state.   *)
(* Time is kept as the remaining delays of the pending timers.  A timer    *)
(* may fire late, never early.  dispatchEvent runs its listeners inside    *)
(* the dispatching run, so a published notification is part of that run.   *)
(*                                                                         *)
(* History variables are recorded only in the specification whose          *)
(* properties read them (the variable watch, fixed by the initial state);  *)
(* they never influence what the program does.                             *)
(***************************************************************************)
EXTENDS Integers, Sequences, FiniteSets, TLC

\* ---------------------------------------------------------------- bounds
Symbols == {"AAPL", "MSFT"}

\* Oracle calls and timers that may be outstanding at once.
MaxAsync == 2

\* The numbers an oracle response can parse to.
OracleNumbers == {0, 1}

\* The same where the properties compare prices with each other.
PriceNumbers == {0, 1, 2}

\* The queries the user comes back to, saves and removes: 1..NamedQueries.
NamedQueries == 1

\* The other queries, each typed after the ones before it:
\* NamedQueries + 1 .. NamedQueries + OtherQueries.
OtherQueries == 51

\* The value at which a history counter stops counting.
MaxCount == 2

\* ------------------------------------------------------ program constants
PacingDelay == 3000
SweepDelay == 500
TickInterval == 60000
PENDING == -1
HistoryLimit == 50
null == -2

\* The wall-clock readings the model draws from.
Years == {2024, 2025}
Hours == {0, 9, 12, 15, 16, 23}
Minutes == {0, 29, 30, 59}

\* The amounts of time the model lets pass in one step.
TimeSteps == {PacingDelay, TickInterval}

\* What the oracle call can produce: an exception, text without a number,
\* or text whose cleaned digits parse to a number.
VARIABLES
    trackedTickers,       \* Map<string, number> as a sequence of <<key, value>> in insertion order
    updateQueue,          \* string[]
    isUpdatingPriceLoop,  \* boolean
    marketOpen,           \* what isMarketOpen() returns at the current wall-clock time
    drainInFlight,        \* per symbol: priceUpdateLoop invocations suspended at await fetchRealPrice
    fastInFlight,         \* per symbol: addTickerToTape invocations suspended at await fetchRealPrice
    sweeps,               \* running fetchAllTrackedPrices invocations, oldest first:
                          \* [phase, todo, wait], the head of todo being the current ticker
    pacingTimers,         \* pending setTimeout(priceUpdateLoop, 3000): remaining delays, oldest first
    tickWait,             \* remaining delay of setInterval(manageTickerUpdates, 60000)
    etDate,               \* read under SpecClock only: the wall clock in America/New_York,
                          \* [year, month (1-12), date, hour, minute]; <<>> elsewhere
    watch,                \* which history is recorded: "run", "history", "cycle", "pace", "closed", "price",
                          \* "clock", "lists", or "none" where no history is recorded
    last,                 \* history "run": the handler run that produced this state, whether
                          \* its fetch returned a price, the MessageEvent it dispatched
                          \* (<<>> or <<ticker, price>>) and what its call of priceUpdateLoop did
    everSucceeded,        \* history "history": symbols for which some fetch has returned a price
    cycle,                \* history "cycle": the drain cycle opened by the last refill
    sinceFetch,           \* history "pace": time since the last drain or fast-path fetch
                          \* completed, saturating at PacingDelay
    published,            \* history "price": per symbol the price of the last MessageEvent
                          \* dispatched for it, 0 when there was none
    searchHistory,        \* string[]: the recent queries, newest first; a query is a number
    favorites,            \* string[]: the saved queries
    closedRun             \* history "closed": per symbol the fetches that sweeps started by
                          \* the periodic tick have issued since the market last changed
                          \* state (counted up to MaxCount), and for each running sweep
                          \* whether the tick started it

vars == <<trackedTickers, updateQueue, isUpdatingPriceLoop, marketOpen,
          drainInFlight, fastInFlight, sweeps, pacingTimers, tickWait,
          etDate, watch, last, everSucceeded, cycle, sinceFetch, published, closedRun,
          searchHistory, favorites>>

\* The history and favorites panel.
lists == <<searchHistory, favorites>>

\* ------------------------------------------------------------ Map helpers
MapHas(m, k) == \E i \in 1..Len(m) : m[i][1] = k

MapKeys(m) == [i \in 1..Len(m) |-> m[i][1]]

MapGet(m, k) == m[CHOOSE i \in 1..Len(m) : m[i][1] = k][2]

\* Map.set keeps the position of an existing key and appends a new one.
MapSet(m, k, v) ==
    IF MapHas(m, k)
    THEN [i \in 1..Len(m) |-> IF m[i][1] = k THEN <<k, v>> ELSE m[i]]
    ELSE Append(m, <<k, v>>)

MapDelete(m, k) == SelectSeq(m, LAMBDA e : e[1] # k)

KeySet(m) == {m[i][1] : i \in 1..Len(m)}

Includes(q, k) == \E i \in 1..Len(q) : q[i] = k

RemoveAt(q, i) == [j \in 1..(Len(q) - 1) |-> IF j < i THEN q[j] ELSE q[j + 1]]

Min(a, b) == IF a < b THEN a ELSE b

Max(a, b) == IF a > b THEN a ELSE b

Sum(f) == f["AAPL"] + f["MSFT"]

\* The asynchronous operations the program is waiting for.
Outstanding == Sum(drainInFlight) + Sum(fastInFlight) + Len(sweeps) + Len(pacingTimers)

\* ------------------------------------------------------------ isMarketOpen
Leap(y) == (y % 4 = 0 /\ y % 100 # 0) \/ y % 400 = 0

DaysIn(y, m) ==
    IF m = 2 THEN (IF Leap(y) THEN 29 ELSE 28)
    ELSE IF m \in {4, 6, 9, 11} THEN 30 ELSE 31

RECURSIVE DaysBeforeYear(_)
DaysBeforeYear(y) ==
    IF y <= 2024 THEN 0
    ELSE DaysBeforeYear(y - 1) + (IF Leap(y - 1) THEN 366 ELSE 365)

RECURSIVE DaysBeforeMonth(_, _)
DaysBeforeMonth(y, m) ==
    IF m = 1 THEN 0 ELSE DaysBeforeMonth(y, m - 1) + DaysIn(y, m - 1)

\* Date.getDay(): 0 = Sunday .. 6 = Saturday; 2024-01-01 was a Monday.
getDay(t) ==
    (1 + DaysBeforeYear(t.year) + DaysBeforeMonth(t.year, t.month) + t.date - 1) % 7

\* new Date(year, monthIndex, d).getDate(): a date past the end of the month
\* rolls over into the next one.
getDate(year, monthIndex, d) ==
    IF d <= DaysIn(year, monthIndex + 1) THEN d ELSE d - DaysIn(year, monthIndex + 1)

Digit(d) == <<"0", "1", "2", "3", "4", "5", "6", "7", "8", "9">>[d + 1]

\* The decimal digits of a month or date number, as characters.
Digits(n) == IF n < 10 THEN <<Digit(n)>> ELSE <<Digit(n \div 10), Digit(n % 10)>>

\* The template string `${month}-${date}`.
MonthDate(month, date) == Digits(month) \o <<"-">> \o Digits(date)

\* Mutant: the session opens at 10:00.
isOpenTime_FromTen(hour, minute) == hour > 9 /\ hour < 16

isOpenTime(hour, minute) == (hour > 9 \/ (hour = 9 /\ minute >= 30)) /\ hour < 16

isOpenDay(day) == day > 0 /\ day < 6

holidays(year) ==
    << MonthDate(1, 1),
       MonthDate(1, getDate(year, 0, 15)),
       MonthDate(2, getDate(year, 1, 19)),
       MonthDate(5, getDate(year, 4, 27)),
       MonthDate(6, 19),
       MonthDate(7, 4),
       MonthDate(9, getDate(year, 8, 2)),
       MonthDate(11, getDate(year, 10, 28)),
       MonthDate(12, 25) >>

\* Mutant: no date is looked up in the holiday list.
todayIsHoliday_Never(t) == FALSE

todayIsHoliday(t) ==
    \E i \in 1..Len(holidays(t.year)) : holidays(t.year)[i] = MonthDate(t.month, t.date)

\* isMarketOpen() when the New York wall clock reads t.
isMarketOpen(t) ==
    IF ~isOpenTime(t.hour, t.minute) \/ ~isOpenDay(getDay(t)) THEN FALSE
    ELSE IF todayIsHoliday(t) THEN FALSE
    ELSE TRUE

\* The readings of the New York wall clock.
Times ==
    {t \in [year : Years, month : 1..12, date : 1..31, hour : Hours, minute : Minutes] :
        t.date <= DaysIn(t.year, t.month)}

\* The first reading of the day after t.
Tomorrow(t) ==
    LET d == IF t.date < DaysIn(t.year, t.month) THEN t.date + 1 ELSE 1
        m == IF d > 1 THEN t.month ELSE IF t.month < 12 THEN t.month + 1 ELSE 1
        y == IF d = 1 /\ m = 1 THEN t.year + 1 ELSE t.year
    IN  [year |-> y, month |-> m, date |-> d, hour |-> 0, minute |-> 0]

\* ---------------------------------------------------------- fetchRealPrice
\* What the oracle call can produce: an exception, text without a number,
\* or text whose cleaned digits parse to a number.
OracleResponses ==
    {<<"throw", 0>>, <<"nan", 0>>} \cup
    {<<"num", v>> : v \in IF watch = "price" THEN PriceNumbers ELSE OracleNumbers}

\* Mutant: a response that parses to zero is returned as a price.
fetchRealPrice_AcceptsZero(r) ==
    IF r[1] = "throw" THEN null
    ELSE IF r[1] = "nan" THEN null
    ELSE r[2]

\* The value fetchRealPrice resolves to for an oracle response.
fetchRealPrice(r) ==
    IF r[1] = "throw" THEN null
    ELSE IF r[1] = "nan" \/ r[2] = 0 THEN null
    ELSE r[2]

\* Mutant: the event is dispatched whatever the fetch returned.
Published_Always(ticker, price) == <<ticker, price>>

\* The MessageEvent payload dispatched for a fetched price, none for null.
Published(ticker, price) == IF price # null THEN <<ticker, price>> ELSE <<>>

\* ------------------------------------------------------- history variables
\* The runs that resume after a fetch.
Completions == {"fastDone", "drainDone", "sweepDone"}

NoRun == [op |-> "init", sym |-> "", ok |-> FALSE, pub |-> <<>>, loop |-> "none"]

Ran(op, sym, price, loop) ==
    IF watch = "run"
    THEN [op |-> op, sym |-> sym, ok |-> price # null,
          pub |-> Published(sym, price), loop |-> loop]
    ELSE last

\* The listeners have received the MessageEvent pub, if there is one.
Noted(pub) ==
    IF watch = "price" /\ pub # <<>>
    THEN [published EXCEPT ![pub[1]] = pub[2]]
    ELSE published

Succeeded(ticker, price) ==
    IF watch = "history" /\ price # null THEN everSucceeded \cup {ticker} ELSE everSucceeded

NoCycle == [n |-> 0, keys |-> {}, open |-> FALSE, fetched |-> [s \in Symbols |-> 0]]

Elapsed(t) == IF watch = "pace" THEN t ELSE sinceFetch

NoClosedRun == [fetched |-> [s \in Symbols |-> 0], byTick |-> <<>>]

Counted(f, s) == [f EXCEPT ![s] = Min(MaxCount, @ + 1)]

\* fetchAllTrackedPrices was called, by the periodic tick or by the button:
\* with keys to visit it is a new sweep whose first fetch has started.
SweepStarted(tick) ==
    IF watch = "closed" /\ Len(trackedTickers) > 0
    THEN [fetched |-> IF tick THEN Counted(closedRun.fetched, trackedTickers[1][1])
                      ELSE closedRun.fetched,
          byTick |-> Append(closedRun.byTick, tick)]
    ELSE closedRun

\* Sweep i ended its delay: it is over, or its next fetch has started.
SweepAdvanced(i) ==
    IF watch # "closed" THEN closedRun
    ELSE IF Len(sweeps[i].todo) = 1
         THEN [closedRun EXCEPT !.byTick = RemoveAt(@, i)]
         ELSE IF closedRun.byTick[i]
              THEN [closedRun EXCEPT !.fetched = Counted(@, sweeps[i].todo[2])]
              ELSE closedRun

\* The market opened or closed: a new period starts.
PeriodChanged ==
    IF watch = "closed" THEN [closedRun EXCEPT !.fetched = NoClosedRun.fetched]
    ELSE closedRun

InitProgram ==
    /\ trackedTickers = <<>>
    /\ updateQueue = <<>>
    /\ isUpdatingPriceLoop = FALSE
    /\ marketOpen \in BOOLEAN
    /\ drainInFlight = [s \in Symbols |-> 0]
    /\ fastInFlight = [s \in Symbols |-> 0]
    /\ sweeps = <<>>
    /\ pacingTimers = <<>>
    /\ tickWait = TickInterval
    /\ last = NoRun
    /\ everSucceeded = {}
    /\ cycle = NoCycle
    /\ sinceFetch = PacingDelay
    /\ closedRun = NoClosedRun
    /\ published = [s \in Symbols |-> 0]
    /\ searchHistory = <<>>
    /\ favorites = <<>>

Init == InitProgram /\ watch = "run" /\ etDate = <<>>

InitHistory == InitProgram /\ watch = "history" /\ etDate = <<>>

InitCycle == InitProgram /\ watch = "cycle" /\ etDate = <<>>

InitPace == InitProgram /\ watch = "pace" /\ etDate = <<>>

InitClosed == InitProgram /\ watch = "closed" /\ etDate = <<>>

InitPrice == InitProgram /\ watch = "price" /\ etDate = <<>>

InitLive == InitProgram /\ watch = "none" /\ etDate = <<>>

\* ---------------------------------------------------------- priceUpdateLoop
\* Mutant: the run guard is not consulted.
LoopSkips_IgnoresGuard == ~marketOpen

\* The early return of priceUpdateLoop.
LoopSkips == isUpdatingPriceLoop \/ ~marketOpen

\* Mutant: the queue is refilled one element too early.
NeedsRefill_Early(q, tt) == Len(q) <= 1 /\ Len(tt) > 0

\* The refill condition of priceUpdateLoop, for queue q and map tt.
NeedsRefill(q, tt) == Len(q) = 0 /\ Len(tt) > 0

\* Mutant: the refill takes the first key only.
Refilled_FirstOnly(q, tt) == IF NeedsRefill(q, tt) THEN <<tt[1][1]>> ELSE q

\* The queue after the refill statement.
Refilled(q, tt) == IF NeedsRefill(q, tt) THEN MapKeys(tt) ELSE q

\* priceUpdateLoop gets past both early returns and starts a fetch.
LoopStarts(q, tt) == ~LoopSkips /\ Len(Refilled(q, tt)) > 0

\* What a call of priceUpdateLoop does, for the history.
LoopOutcome(q, tt) ==
    IF LoopSkips THEN "skipped"
    ELSE IF Len(Refilled(q, tt)) = 0 THEN "empty"
    ELSE IF NeedsRefill(q, tt) THEN "refilled" ELSE "popped"

CycleAfter(q, tt, ticker) ==
    IF watch # "cycle" THEN cycle
    ELSE IF NeedsRefill(q, tt)
    THEN [n |-> 1 - cycle.n, keys |-> KeySet(tt), open |-> TRUE,
          fetched |-> [s \in Symbols |-> IF s = ticker THEN 1 ELSE 0]]
    ELSE [cycle EXCEPT !.fetched[ticker] = @ + 1]

\* One call of priceUpdateLoop up to its await, made when the queue is q and
\* the map is tt (the caller may have changed both in the same run).
priceUpdateLoop(q, tt) ==
    IF LoopSkips
    THEN /\ updateQueue' = q
         /\ UNCHANGED <<isUpdatingPriceLoop, drainInFlight, cycle>>
    ELSE LET q1 == Refilled(q, tt) IN
         IF Len(q1) = 0
         THEN /\ updateQueue' = q1
              /\ UNCHANGED <<isUpdatingPriceLoop, drainInFlight, cycle>>
         ELSE LET ticker == Head(q1) IN
              /\ isUpdatingPriceLoop' = TRUE
              /\ updateQueue' = Tail(q1)
              /\ drainInFlight' = [drainInFlight EXCEPT ![ticker] = @ + 1]
              /\ cycle' = CycleAfter(q, tt, ticker)

\* Mutant: a price already recorded is kept, the newer one is dropped.
DrainRecord_KeepsResolved(tt, ticker, price) ==
    IF price = null \/ (MapHas(tt, ticker) /\ MapGet(tt, ticker) # PENDING) THEN tt
    ELSE MapSet(tt, ticker, price)

\* The map after priceUpdateLoop has handled the fetched price.
DrainRecord(tt, ticker, price) ==
    IF price # null THEN MapSet(tt, ticker, price) ELSE tt

\* Mutant: the next step is scheduled without a delay.
ArmPacing_AtOnce(timers) == Append(timers, 0)

\* setTimeout(priceUpdateLoop, 3000).
ArmPacing(timers) == Append(timers, PacingDelay)

\* priceUpdateLoop resumes after await fetchRealPrice(ticker) with response r.
DrainComplete(ticker, r) ==
    LET price == fetchRealPrice(r) IN
    /\ drainInFlight[ticker] > 0
    /\ drainInFlight' = [drainInFlight EXCEPT ![ticker] = @ - 1]
    /\ trackedTickers' = DrainRecord(trackedTickers, ticker, price)
    /\ isUpdatingPriceLoop' = FALSE
    /\ pacingTimers' = ArmPacing(pacingTimers)
    /\ last' = Ran("drainDone", ticker, price, "none")
    /\ everSucceeded' = Succeeded(ticker, price)
    /\ sinceFetch' = Elapsed(0)
    /\ published' = Noted(Published(ticker, price))
    /\ UNCHANGED <<updateQueue, marketOpen, fastInFlight, sweeps, tickWait, watch, lists, etDate,
                   closedRun, cycle>>

\* A pending setTimeout(priceUpdateLoop, 3000) fires.
PacingTimerFire ==
    /\ Len(pacingTimers) > 0
    /\ Head(pacingTimers) = 0
    /\ pacingTimers' = Tail(pacingTimers)
    /\ priceUpdateLoop(updateQueue, trackedTickers)
    /\ last' = Ran("pacing", "", null, LoopOutcome(updateQueue, trackedTickers))
    /\ UNCHANGED <<trackedTickers, marketOpen, fastInFlight, sweeps, tickWait,
                   watch, lists, etDate, published, closedRun, everSucceeded, sinceFetch>>

\* ---------------------------------------------------- fetchAllTrackedPrices
\* Mutant: the loop goes over the keys twice.
fetchAllTrackedPrices_Twice ==
    LET tickers == MapKeys(trackedTickers) IN
    IF Len(tickers) = 0
    THEN UNCHANGED sweeps
    ELSE /\ Outstanding < MaxAsync
         /\ sweeps' = Append(sweeps, [phase |-> "fetch", todo |-> tickers \o tickers,
                                      wait |-> 0])

\* fetchAllTrackedPrices up to its first await: snapshot the keys and start
\* the first fetch; with no keys the loop body never runs.
fetchAllTrackedPrices ==
    LET tickers == MapKeys(trackedTickers) IN
    IF Len(tickers) = 0
    THEN UNCHANGED sweeps
    ELSE /\ Outstanding < MaxAsync
         /\ sweeps' = Append(sweeps, [phase |-> "fetch", todo |-> tickers, wait |-> 0])

\* Mutant: whatever the fetch returned is stored.
SweepRecord_StoresNull(tt, ticker, price) == MapSet(tt, ticker, price)

\* The map after fetchAllTrackedPrices has handled the fetched price.
SweepRecord(tt, ticker, price) ==
    IF price # null THEN MapSet(tt, ticker, price) ELSE tt

\* Sweep i resumes after await fetchRealPrice(ticker) and starts its delay.
SweepFetchComplete(i, r) ==
    LET ticker == Head(sweeps[i].todo)
        price == fetchRealPrice(r) IN
    /\ i <= Len(sweeps)
    /\ sweeps[i].phase = "fetch"
    /\ trackedTickers' = SweepRecord(trackedTickers, ticker, price)
    /\ sweeps' = [sweeps EXCEPT ![i] = [@ EXCEPT !.phase = "sleep", !.wait = SweepDelay]]
    /\ last' = Ran("sweepDone", ticker, price, "none")
    /\ everSucceeded' = Succeeded(ticker, price)
    /\ published' = Noted(Published(ticker, price))
    /\ UNCHANGED <<updateQueue, isUpdatingPriceLoop, marketOpen, drainInFlight,
                   fastInFlight, pacingTimers, tickWait, watch, lists, etDate, closedRun, cycle,
                   sinceFetch>>

\* Mutant: the sweep empties the work queue whenever its delay is over.
SweepDelayFire_DropsQueue(i) ==
    /\ i <= Len(sweeps)
    /\ sweeps[i].phase = "sleep"
    /\ sweeps[i].wait = 0
    /\ sweeps' = IF Len(sweeps[i].todo) = 1
                 THEN RemoveAt(sweeps, i)
                 ELSE [sweeps EXCEPT ![i] =
                          [phase |-> "fetch", todo |-> Tail(@.todo), wait |-> 0]]
    /\ updateQueue' = <<>>
    /\ last' = Ran("sweepNext", "", null, "none")
    /\ closedRun' = SweepAdvanced(i)
    /\ UNCHANGED <<trackedTickers, isUpdatingPriceLoop, marketOpen, drainInFlight,
                   fastInFlight, pacingTimers, tickWait, watch, lists, etDate, published,
                   everSucceeded, cycle, sinceFetch>>

\* The 500 ms delay of sweep i is over: next ticker of the snapshot, or done.
SweepDelayFire(i) ==
    /\ i <= Len(sweeps)
    /\ sweeps[i].phase = "sleep"
    /\ sweeps[i].wait = 0
    /\ sweeps' = IF Len(sweeps[i].todo) = 1
                 THEN RemoveAt(sweeps, i)
                 ELSE [sweeps EXCEPT ![i] =
                          [phase |-> "fetch", todo |-> Tail(@.todo), wait |-> 0]]
    /\ last' = Ran("sweepNext", "", null, "none")
    /\ closedRun' = SweepAdvanced(i)
    /\ UNCHANGED <<trackedTickers, updateQueue, isUpdatingPriceLoop, marketOpen,
                   drainInFlight, fastInFlight, pacingTimers, tickWait, watch, lists, etDate,
                   published, everSucceeded, cycle, sinceFetch>>

\* The refresh button's click listener.
RefreshClick ==
    /\ fetchAllTrackedPrices
    /\ last' = Ran("refresh", "", null, "none")
    /\ closedRun' = SweepStarted(FALSE)
    /\ UNCHANGED <<trackedTickers, updateQueue, isUpdatingPriceLoop, marketOpen,
                   drainInFlight, fastInFlight, pacingTimers, tickWait, watch, lists,
                   etDate, published,
                   everSucceeded, cycle, sinceFetch>>

\* ------------------------------------------------------ manageTickerUpdates
\* Mutant: the sweep is dispatched without asking isMarketOpen().
Dispatch_IgnoresMarket == IF Len(trackedTickers) > 0 THEN "sweep" ELSE "none"

\* The branch of manageTickerUpdates taken: "drain", "sweep" or "none".
Dispatch ==
    IF marketOpen THEN "drain"
    ELSE IF Len(trackedTickers) > 0 THEN "sweep" ELSE "none"

\* The setInterval callback.
manageTickerUpdates ==
    /\ tickWait = 0
    /\ tickWait' = TickInterval
    /\ IF Dispatch = "drain"
       THEN /\ LoopStarts(updateQueue, trackedTickers) => Outstanding < MaxAsync
            /\ priceUpdateLoop(updateQueue, trackedTickers)
            /\ last' = Ran("tick", "", null, LoopOutcome(updateQueue, trackedTickers))
            /\ UNCHANGED <<sweeps, closedRun>>
       ELSE /\ IF Dispatch = "sweep" THEN fetchAllTrackedPrices ELSE UNCHANGED sweeps
            /\ closedRun' = SweepStarted(TRUE)
            /\ last' = Ran("tick", "", null, "none")
            /\ UNCHANGED <<updateQueue, isUpdatingPriceLoop, drainInFlight, cycle>>
    /\ UNCHANGED <<trackedTickers, marketOpen, fastInFlight, pacingTimers,
                   watch, lists, etDate, published, everSucceeded, sinceFetch>>

\* ---------------------------------------------------------- addTickerToTape
\* Mutant: a ticker whose first fetch is still pending counts as untracked.
AlreadyTracked_IgnoresPending(ticker) ==
    MapHas(trackedTickers, ticker) /\ MapGet(trackedTickers, ticker) # PENDING

\* The early return of addTickerToTape.
AlreadyTracked(ticker) == MapHas(trackedTickers, ticker)

\* addTickerToTape(ticker) up to its await, called by trackTickersFromPrompt
\* for a token of the prompt.
addTickerToTape(ticker) ==
    /\ IF AlreadyTracked(ticker)
       THEN UNCHANGED <<trackedTickers, fastInFlight>>
       ELSE /\ Outstanding < MaxAsync
            /\ trackedTickers' = MapSet(trackedTickers, ticker, PENDING)
            /\ fastInFlight' = [fastInFlight EXCEPT ![ticker] = @ + 1]
    /\ last' = Ran("add", ticker, null, "none")
    /\ UNCHANGED <<updateQueue, isUpdatingPriceLoop, marketOpen, drainInFlight,
                   sweeps, pacingTimers, tickWait, watch, lists, etDate, published, closedRun,
                   everSucceeded, cycle,
                   sinceFetch>>

\* Mutant: the ticker is pushed whether the market is open or not.
ShouldEnqueue_IgnoresMarket(ticker) == ~Includes(updateQueue, ticker)

\* Mutant: the ticker is pushed without looking for it in the queue.
ShouldEnqueue_NoIncludes(ticker) == marketOpen

\* The condition under which a resolved ticker is pushed on the queue.
ShouldEnqueue(ticker) == marketOpen /\ ~Includes(updateQueue, ticker)

\* Mutant: a failed first fetch leaves the placeholder in the map.
FastFailure_KeepsPlaceholder(tt, ticker) == tt

\* The map after the failure branch of addTickerToTape.
FastFailure(tt, ticker) == MapDelete(tt, ticker)

\* addTickerToTape(ticker) resumes after await fetchRealPrice(ticker).
FastComplete(ticker, r) ==
    LET price == fetchRealPrice(r)
        tt1 == MapSet(trackedTickers, ticker, price)
        q1 == Append(updateQueue, ticker) IN
    /\ fastInFlight[ticker] > 0
    /\ fastInFlight' = [fastInFlight EXCEPT ![ticker] = @ - 1]
    /\ IF price # null
       THEN /\ trackedTickers' = tt1
            /\ IF ShouldEnqueue(ticker)
               THEN /\ priceUpdateLoop(q1, tt1)
                    /\ last' = Ran("fastDone", ticker, price, LoopOutcome(q1, tt1))
               ELSE /\ UNCHANGED <<updateQueue, isUpdatingPriceLoop, drainInFlight, cycle>>
                    /\ last' = Ran("fastDone", ticker, price, "none")
       ELSE /\ trackedTickers' = FastFailure(trackedTickers, ticker)
            /\ last' = Ran("fastDone", ticker, price, "none")
            /\ UNCHANGED <<updateQueue, isUpdatingPriceLoop, drainInFlight, cycle>>
    /\ everSucceeded' = Succeeded(ticker, price)
    /\ sinceFetch' = Elapsed(0)
    /\ published' = Noted(Published(ticker, price))
    /\ UNCHANGED <<marketOpen, sweeps, pacingTimers, tickWait, watch, lists, etDate, closedRun>>

\* ------------------------------------------------------------- environment
\* d milliseconds pass: every pending delay shrinks, none below zero.  The
\* interval's remaining delay is kept rounded up to a whole TickInterval, so
\* that the periodic tick fires no earlier than the browser would fire it.
Advance(d) ==
    /\ pacingTimers' = [i \in 1..Len(pacingTimers) |-> Max(0, pacingTimers[i] - d)]
    /\ sweeps' = [i \in 1..Len(sweeps) |->
                     [sweeps[i] EXCEPT !.wait = Max(0, @ - d)]]
    /\ tickWait' = IF d >= tickWait THEN 0 ELSE tickWait
    /\ sinceFetch' = Elapsed(Min(PacingDelay, sinceFetch + d))
    /\ last' = Ran("time", "", null, "none")
    /\ UNCHANGED <<trackedTickers, updateQueue, isUpdatingPriceLoop, marketOpen,
                   drainInFlight, fastInFlight, watch, lists, etDate, published, closedRun,
                   everSucceeded, cycle>>

\* The wall clock crosses a boundary of the trading session, so that
\* isMarketOpen() changes its answer.
MarketBoundary ==
    /\ marketOpen' = ~marketOpen
    /\ cycle' = IF watch = "cycle" THEN [cycle EXCEPT !.open = FALSE] ELSE cycle
    /\ last' = Ran("boundary", "", null, "none")
    /\ closedRun' = PeriodChanged
    /\ UNCHANGED <<trackedTickers, updateQueue, isUpdatingPriceLoop, drainInFlight,
                   fastInFlight, sweeps, pacingTimers, tickWait, watch, lists, etDate, published,
                   everSucceeded, sinceFetch>>

Next ==
    \/ \E s \in Symbols : addTickerToTape(s)
    \/ \E s \in Symbols, r \in OracleResponses : FastComplete(s, r)
    \/ manageTickerUpdates
    \/ \E s \in Symbols, r \in OracleResponses : DrainComplete(s, r)
    \/ PacingTimerFire
    \/ RefreshClick
    \/ \E i \in 1..MaxAsync, r \in OracleResponses : SweepFetchComplete(i, r)
    \/ \E i \in 1..MaxAsync : SweepDelayFire(i)
    \/ \E d \in TimeSteps : Advance(d)
    \/ MarketBoundary

Spec == Init /\ [][Next]_vars

SpecHistory == InitHistory /\ [][Next]_vars

SpecCycle == InitCycle /\ [][Next]_vars

SpecPace == InitPace /\ [][Next]_vars

SpecClosed == InitClosed /\ [][Next]_vars

SpecPrice == InitPrice /\ [][Next]_vars

\* What the browser and the oracle guarantee: a timer whose delay has run
\* out fires, time passes, the interval callback is run again and again, and
\* (the premise of the liveness properties) every oracle call returns.  The
\* interval callback is never held back in the program; in the model it waits
\* while MaxAsync operations are outstanding, hence its strong fairness.
Fairness ==
    /\ WF_vars(PacingTimerFire)
    /\ WF_vars(\E i \in 1..MaxAsync : SweepDelayFire(i))
    /\ \A d \in TimeSteps : WF_vars(Advance(d))
    /\ SF_vars(manageTickerUpdates)
    /\ WF_vars(\E s \in Symbols, r \in OracleResponses : DrainComplete(s, r))
    /\ WF_vars(\E s \in Symbols, r \in OracleResponses : FastComplete(s, r))
    /\ WF_vars(\E i \in 1..MaxAsync, r \in OracleResponses : SweepFetchComplete(i, r))

SpecLive == InitLive /\ [][Next]_vars /\ Fairness

\* ------------------------------------------------------------- wall clock
\* isMarketOpen as a function of the wall clock: the clock starts at any
\* reading and runs forward, and marketOpen is what isMarketOpen() returns.
InitClock ==
    /\ InitProgram
    /\ watch = "clock"
    /\ etDate \in Times
    /\ marketOpen = isMarketOpen(etDate)

Reads(t) ==
    /\ etDate' = t
    /\ marketOpen' = isMarketOpen(t)
    /\ last' = [NoRun EXCEPT !.op = "clock"]
    /\ UNCHANGED <<trackedTickers, updateQueue, isUpdatingPriceLoop, drainInFlight,
                   fastInFlight, sweeps, pacingTimers, tickWait, watch, lists,
                   everSucceeded, cycle, sinceFetch, published, closedRun>>

\* The clock moves on to a later reading of the same day.
ClockAdvance(hour, minute) ==
    /\ hour > etDate.hour \/ (hour = etDate.hour /\ minute > etDate.minute)
    /\ Reads([etDate EXCEPT !.hour = hour, !.minute = minute])

\* The clock passes midnight.
Midnight ==
    /\ Tomorrow(etDate).year \in Years
    /\ Reads(Tomorrow(etDate))

NextClock ==
    \/ \E hour \in Hours, minute \in Minutes : ClockAdvance(hour, minute)
    \/ Midnight

SpecClock == InitClock /\ [][NextClock]_vars

\* ------------------------------------------------- history and favorites
\* Array.indexOf: the 0-based position of the first x in a, -1 when absent.
indexOf(a, x) ==
    IF Includes(a, x)
    THEN (CHOOSE i \in 1..Len(a) : a[i] = x /\ \A j \in 1..(i - 1) : a[j] # x) - 1
    ELSE -1

\* Array.splice(index, 1).
splice(a, index) == RemoveAt(a, index + 1)

\* Mutant: a saved query is added to the history like any other.
HistoryAfterAdd_SavedToo(h, f, query) ==
    LET existingIndex == indexOf(h, query)
        spliced == IF existingIndex > -1 THEN splice(h, existingIndex) ELSE h
        unshifted == <<query>> \o spliced
    IN  IF Len(unshifted) > HistoryLimit
        THEN SubSeq(unshifted, 1, Len(unshifted) - 1)
        ELSE unshifted

\* searchHistory after addToHistory(query), the lists being h and f.
HistoryAfterAdd(h, f, query) ==
    IF Includes(f, query) THEN h
    ELSE LET existingIndex == indexOf(h, query)
             spliced == IF existingIndex > -1 THEN splice(h, existingIndex) ELSE h
             unshifted == <<query>> \o spliced
         IN  IF Len(unshifted) > HistoryLimit
             THEN SubSeq(unshifted, 1, Len(unshifted) - 1)
             ELSE unshifted

\* The state of the ticker scheduler, which these handlers leave alone.
scheduler ==
    <<trackedTickers, updateQueue, isUpdatingPriceLoop, marketOpen, drainInFlight,
      fastInFlight, sweeps, pacingTimers, tickWait, etDate, watch, last,
      everSucceeded, cycle, sinceFetch, published, closedRun>>

addToHistory(query) ==
    /\ searchHistory' = HistoryAfterAdd(searchHistory, favorites, query)
    /\ UNCHANGED <<favorites, scheduler>>

handleAddToFavorites(query) ==
    LET historyIndex == indexOf(searchHistory, query) IN
    /\ favorites' = IF ~Includes(favorites, query) THEN <<query>> \o favorites
                    ELSE favorites
    /\ searchHistory' = IF historyIndex > -1 THEN splice(searchHistory, historyIndex)
                        ELSE searchHistory
    /\ UNCHANGED scheduler

handleRemoveFromFavorites(query) ==
    LET favoriteIndex == indexOf(favorites, query) IN
    /\ favorites' = IF favoriteIndex > -1 THEN splice(favorites, favoriteIndex)
                    ELSE favorites
    /\ UNCHANGED <<searchHistory, scheduler>>

handleClearHistory ==
    /\ searchHistory' = <<>>
    /\ UNCHANGED <<favorites, scheduler>>

Named == 1..NamedQueries

\* The other queries are typed in turn, each after the last one still listed.
Others == (NamedQueries + 1)..(NamedQueries + OtherQueries)

\* The greatest of the first n entries of h, and of NamedQueries.
RECURSIVE Newest(_, _)
Newest(h, n) == IF n = 0 THEN NamedQueries ELSE Max(h[n], Newest(h, n - 1))

\* What the user submits: a named query, or the next other one.
Typed == Named \cup ({Newest(searchHistory, Len(searchHistory)) + 1} \cap Others)

InitLists == InitProgram /\ watch = "lists" /\ etDate = <<>>

\* Any sequence of the four handlers. A submitted prompt goes to
\* addToHistory; its tickers go to the scheduler, which reads neither list.
NextLists ==
    \/ \E query \in Typed : addToHistory(query)
    \/ \E query \in Named : handleAddToFavorites(query)
    \/ \E query \in Named : handleRemoveFromFavorites(query)
    \/ handleClearHistory

SpecLists == InitLists /\ [][NextLists]_vars

TypeOK ==
    /\ isUpdatingPriceLoop \in BOOLEAN
    /\ marketOpen \in BOOLEAN
    /\ \A i \in 1..Len(trackedTickers) :
          /\ trackedTickers[i][1] \in Symbols
          /\ trackedTickers[i][2] \in ((OracleNumbers \cup PriceNumbers) \ {0}) \cup {PENDING}
    /\ \A i \in 1..Len(updateQueue) : updateQueue[i] \in Symbols
    /\ \A i \in 1..Len(searchHistory) : searchHistory[i] \in Named \cup Others
    /\ \A i \in 1..Len(favorites) : favorites[i] \in Named
    /\ Outstanding <= MaxAsync

\* ------------------------------------------------------------ properties
\* A run started a drain fetch for ticker t.
DrainStarts(t) == drainInFlight'[t] = drainInFlight[t] + 1

SweepFetches == {i \in 1..Len(sweeps) : sweeps[i].phase = "fetch"}

\* Some fetch for s is in flight, on any path.
FetchInFlight(s) ==
    \/ fastInFlight[s] > 0
    \/ drainInFlight[s] > 0
    \/ \E i \in SweepFetches : Head(sweeps[i].todo) = s

NoDuplicates(q) == \A i, j \in 1..Len(q) : i # j => q[i] # q[j]

\* C1: at every instant at most one fetch started by priceUpdateLoop is in
\* flight, whatever ticks, pacing callbacks and fast-path kicks arrive.
C1_OneDrainFetch == Sum(drainInFlight) <= 1

\* C1 witness: a periodic tick found the market open and a drain fetch
\* outstanding, and returned at the guard.
C1_TickWhileFetching ==
    /\ last.op = "tick" /\ last.loop = "skipped"
    /\ marketOpen /\ isUpdatingPriceLoop
    /\ Sum(drainInFlight) = 1

\* C2: a symbol for which some fetch has succeeded stays in trackedTickers
\* in every later state.  (Checked under SpecHistory.)
C2_SucceededStaysTracked == \A s \in everSucceeded : MapHas(trackedTickers, s)

\* C3: when the fast-path fetch issued for s fails, s is absent from
\* trackedTickers once the failure is handled and no notification is
\* published for it; and a symbol that is absent (which, once tracked, it is
\* only through such a failure) becomes tracked again only by a new
\* addTickerToTape(s).
C3_FailedFirstFetchDrops ==
    [][\A s \in Symbols :
         /\ (last'.op = "fastDone" /\ last'.sym = s /\ ~last'.ok)
               => (~MapHas(trackedTickers', s) /\ last'.pub = <<>>)
         /\ (~MapHas(trackedTickers, s) /\ MapHas(trackedTickers', s))
               => (last'.op = "add" /\ last'.sym = s)]_vars

C5_QueueNoDuplicates == NoDuplicates(updateQueue)

\* C5 witness: the fast path appended its ticker behind a symbol left from a
\* refill, while a drain fetch was outstanding.
C5_AppendedBehindRefill ==
    /\ last.op = "fastDone" /\ last.ok /\ last.loop = "skipped"
    /\ Len(updateQueue) = 2
    /\ updateQueue[2] = last.sym

\* C6: priceUpdateLoop refills updateQueue only when the queue it finds is
\* empty and trackedTickers is non-empty, and the refilled queue, of which
\* the same run pops the head t, is the key sequence of trackedTickers with
\* each key once; a non-empty queue is only popped.
C6_RefillExact ==
    [][\A t \in Symbols :
         DrainStarts(t) =>
            LET found == IF last'.op = "fastDone"
                         THEN Append(updateQueue, last'.sym)
                         ELSE updateQueue
                after == <<t>> \o updateQueue'
            IN  IF Len(found) > 0
                THEN after = found
                ELSE /\ Len(trackedTickers') > 0
                     /\ after = MapKeys(trackedTickers')
                     /\ NoDuplicates(after)]_vars

\* C6 witness: a run refilled the empty queue from two tracked symbols and
\* popped the first.
C6_RefilledFromTwo ==
    /\ last.loop = "refilled"
    /\ Len(trackedTickers) = 2
    /\ Len(updateQueue) = 1
    /\ updateQueue[1] = trackedTickers[2][1]

\* C7: while the market stays open, every symbol of a refill is fetched by
\* the drain path exactly once before the next refill: never twice, and
\* once when the next refill comes.  (Checked under SpecCycle.)
C7_OncePerCycle ==
    [][/\ cycle'.open => \A s \in cycle'.keys : cycle'.fetched[s] <= 1
       /\ (cycle'.n # cycle.n /\ cycle.open)
             => \A s \in cycle.keys : cycle.fetched[s] = 1]_vars

\* C8: a drain fetch starts only when the pacing delay has passed since the
\* last drain or fast-path fetch completed.  (Checked under SpecPace.)
C8_PacedDrainFetches ==
    [][\A t \in Symbols :
         DrainStarts(t) => (sinceFetch >= PacingDelay /\ sinceFetch' >= PacingDelay)]_vars

\* C9: at no instant are two fetches of fetchAllTrackedPrices in flight.
C9_OneSweepFetch == Cardinality(SweepFetches) <= 1

\* C10: a drain fetch starts only in a state where the market is open, and a
\* periodic tick starts a sweep only when the market is closed and
\* trackedTickers is non-empty.
C10_DispatchOnSession ==
    [][/\ \A t \in Symbols : DrainStarts(t) => marketOpen
       /\ (last'.op = "tick" /\ Len(sweeps') > Len(sweeps))
             => (~marketOpen /\ Len(trackedTickers) > 0)]_vars

\* C10 witness: a periodic tick found the market closed and started a sweep
\* over the tracked symbols.
C10_TickStartedSweep ==
    /\ last.op = "tick"
    /\ ~marketOpen
    /\ Len(sweeps) > 0
    /\ sweeps[Len(sweeps)] = [phase |-> "fetch", todo |-> MapKeys(trackedTickers), wait |-> 0]

\* C11: while the market stays closed, the sweeps started by the periodic
\* tick fetch each symbol at most once.  (Checked under SpecClosed.)
C11_OncePerClosedPeriod ==
    ~marketOpen => \A s \in Symbols : closedRun.fetched[s] <= 1

\* C12: a run that resumes after a successful fetch for s dispatches one
\* notification, <<s, price>> with the price it has just recorded; a run
\* whose fetch failed dispatches none, and no other run dispatches any, so
\* that notifications follow the order in which fetches complete.
C12_CompletionPublishes ==
    IF last.op \in Completions /\ last.ok
    THEN /\ MapHas(trackedTickers, last.sym)
         /\ last.pub = <<last.sym, MapGet(trackedTickers, last.sym)>>
    ELSE last.pub = <<>>

\* C12 witness: a sweep fetch returned a price for a symbol whose first
\* fetch was still in flight, and its notification was dispatched.
C12_SweepPublished ==
    /\ last.op = "sweepDone" /\ last.ok
    /\ last.pub = <<last.sym, 1>>
    /\ fastInFlight[last.sym] = 1

\* C17: a symbol of trackedTickers that holds a price holds the price of the
\* last notification dispatched for it, that is, of the successful fetch
\* for it that completed last.  (Checked under SpecPrice.)
C17_RecordedIsLatest ==
    \A s \in Symbols :
        (MapHas(trackedTickers, s) /\ MapGet(trackedTickers, s) # PENDING)
            => MapGet(trackedTickers, s) = published[s]

\* C17 witness: a symbol holds the price of its last notification while a
\* drain fetch for it is in flight, and the other symbol holds a different
\* price.
C17_PriceReplaced ==
    \E s, t \in Symbols :
        /\ s # t
        /\ MapHas(trackedTickers, s) /\ MapGet(trackedTickers, s) = 2
        /\ published[s] = 2
        /\ drainInFlight[s] = 1
        /\ MapHas(trackedTickers, t) /\ MapGet(trackedTickers, t) = 1

\* C13: addTickerToTape(s) for a key s of trackedTickers, pending or not,
\* changes nothing and starts no fetch; for any other s it appends s with
\* the pending marker and starts exactly one fetch for s in the same run,
\* whatever the guard of the drain loop says, and changes nothing else.
C13_AddStartsOneFetch ==
    [][\A s \in Symbols :
         (last'.op = "add" /\ last'.sym = s) =>
            IF MapHas(trackedTickers, s)
            THEN UNCHANGED <<trackedTickers, updateQueue, isUpdatingPriceLoop,
                             drainInFlight, fastInFlight, sweeps, pacingTimers>>
            ELSE /\ trackedTickers' = Append(trackedTickers, <<s, PENDING>>)
                 /\ fastInFlight' = [fastInFlight EXCEPT ![s] = @ + 1]
                 /\ UNCHANGED <<updateQueue, isUpdatingPriceLoop, drainInFlight,
                                sweeps, pacingTimers>>]_vars

\* C13 witness: a symbol was added and its first fetch started while the
\* guard was set and a drain fetch was in flight.
C13_AddedDuringDrainFetch ==
    /\ last.op = "add"
    /\ isUpdatingPriceLoop /\ Sum(drainInFlight) = 1
    /\ MapHas(trackedTickers, last.sym)
    /\ MapGet(trackedTickers, last.sym) = PENDING
    /\ fastInFlight[last.sym] = 1

\* The <<month, date>> pairs isMarketOpen treats as holidays.
HolidayDates ==
    {<<1, 1>>, <<1, 15>>, <<2, 19>>, <<5, 27>>, <<6, 19>>, <<7, 4>>, <<9, 2>>,
     <<11, 28>>, <<12, 25>>}

MinuteOfDay(t) == 60 * t.hour + t.minute

\* C14: isMarketOpen is true exactly on a Monday to Friday, from 09:30 up to
\* but not including 16:00, on a date outside its holiday set; so it is
\* false all Saturday and Sunday, and false before 09:30 and from 16:00 on.
\* (Checked under SpecClock.)
C14_OpenIffWeekdayWindowNoHoliday ==
    marketOpen <=>
        /\ getDay(etDate) \in 1..5
        /\ MinuteOfDay(etDate) >= 570 /\ MinuteOfDay(etDate) < 960
        /\ <<etDate.month, etDate.date>> \notin HolidayDates

\* C14 witness: the clock reached 09:30 on a weekday that is no holiday, and the market is open.
C14_OpenAtHalfPastNine ==
    /\ last.op = "clock"
    /\ etDate.hour = 9 /\ etDate.minute = 30
    /\ getDay(etDate) \in 1..5
    /\ marketOpen

\* C15: at 12:00 isMarketOpen is false on every date of its holiday set, on
\* 2024-07-04 and 2024-12-25 among them, and true on 2024-07-05.
\* (Checked under SpecClock.)
C15_NoonOnHolidays ==
    (etDate.hour = 12 /\ etDate.minute = 0) =>
        /\ <<etDate.month, etDate.date>> \in HolidayDates => ~marketOpen
        /\ <<etDate.year, etDate.month, etDate.date>> \in {<<2024, 7, 4>>, <<2024, 12, 25>>}
              => ~marketOpen
        /\ <<etDate.year, etDate.month, etDate.date>> = <<2024, 7, 5>> => marketOpen

\* C15 witness: the clock reached noon of 2024-07-04, a Thursday, and the
\* market is closed.
C15_NoonOfJulyFourth ==
    /\ last.op = "clock"
    /\ etDate = [year |-> 2024, month |-> 7, date |-> 4, hour |-> 12, minute |-> 0]
    /\ getDay(etDate) = 4
    /\ ~marketOpen

\* C16: when a drain or sweep fetch for s returns a price and s is no longer
\* a key of trackedTickers, the run leaves trackedTickers as it is.
C16_RemovedNotReinserted ==
    [][\A s \in Symbols :
         (/\ last'.op \in {"drainDone", "sweepDone"}
          /\ last'.sym = s /\ last'.ok
          /\ ~MapHas(trackedTickers, s))
            => trackedTickers' = trackedTickers]_vars

\* C18: a run that resumes after a failed drain or sweep fetch leaves
\* trackedTickers as it is, so the symbol keeps its price or its pending
\* marker, and dispatches no notification.
C18_FailedFetchChangesNothing ==
    [][(last'.op \in {"drainDone", "sweepDone"} /\ ~last'.ok)
          => (trackedTickers' = trackedTickers /\ last'.pub = <<>>)]_vars

\* C18 witness: a sweep fetch failed for a symbol that still holds the
\* pending marker.
C18_FailedSweepOfPending ==
    /\ last.op = "sweepDone" /\ ~last.ok
    /\ MapHas(trackedTickers, last.sym)
    /\ MapGet(trackedTickers, last.sym) = PENDING

\* C19: the run that resumes after a drain fetch, successful or not, clears
\* isUpdatingPriceLoop and arms one timer for the next step with the whole
\* pacing delay.
C19_GuardClearedThenPaced ==
    [][last'.op = "drainDone"
          => /\ ~isUpdatingPriceLoop'
             /\ pacingTimers' = Append(pacingTimers, PacingDelay)]_vars

\* C19 witness: a drain fetch failed; the guard is clear and the newest
\* timer has the whole pacing delay to run.
C19_FailedDrainRearmed ==
    /\ last.op = "drainDone" /\ ~last.ok
    /\ ~isUpdatingPriceLoop
    /\ Len(pacingTimers) > 0
    /\ pacingTimers[Len(pacingTimers)] = PacingDelay

\* C20: while a drain fetch is in flight, a periodic tick or a pacing
\* callback leaves updateQueue, trackedTickers, the guard and the fetches
\* in flight as they are and arms no timer (the callback's own timer is
\* gone); the fast path's call of priceUpdateLoop does the same after the
\* fast path has pushed its ticker.
C20_SkippedWhileFetching ==
    [][Sum(drainInFlight) >= 1 =>
         /\ last'.op \in {"tick", "pacing"}
               => /\ UNCHANGED <<updateQueue, trackedTickers, isUpdatingPriceLoop,
                                 drainInFlight>>
                  /\ pacingTimers' = IF last'.op = "pacing" THEN Tail(pacingTimers)
                                     ELSE pacingTimers
         /\ (last'.op = "fastDone" /\ last'.loop # "none")
               => /\ updateQueue' = Append(updateQueue, last'.sym)
                  /\ UNCHANGED <<isUpdatingPriceLoop, drainInFlight, pacingTimers>>]_vars

\* C20 witness: a pacing callback arrived while a drain fetch started by a
\* later tick or kick was in flight, and returned at the guard.
C20_PacingWhileFetching ==
    /\ last.op = "pacing" /\ last.loop = "skipped"
    /\ marketOpen /\ isUpdatingPriceLoop
    /\ Sum(drainInFlight) = 1

\* The runs of fetchAllTrackedPrices: its start by the button, and its
\* resumptions after a fetch and after a delay.
SweepRuns == {"refresh", "sweepDone", "sweepNext"}

\* C21: no run of fetchAllTrackedPrices, and no tick that starts one, changes
\* updateQueue, isUpdatingPriceLoop, the drain fetches in flight or the
\* pacing timers, whether the market is open or closed.
C21_SweepLeavesDrainState ==
    [][(last'.op \in SweepRuns \/ (last'.op = "tick" /\ Len(sweeps') > Len(sweeps)))
          => UNCHANGED <<updateQueue, isUpdatingPriceLoop, drainInFlight,
                         pacingTimers>>]_vars

\* C21 witness: a sweep went on after the market had opened; its delay ended
\* while a drain fetch was in flight and a symbol was waiting in the queue.
C21_SweepBesideDrain ==
    /\ last.op = "sweepNext"
    /\ marketOpen /\ isUpdatingPriceLoop
    /\ Sum(drainInFlight) = 1
    /\ Len(updateQueue) > 0

\* C22: when the first fetch of s returns a price, s is pushed on the tail of
\* updateQueue exactly if the market is open and the queue does not hold s;
\* then priceUpdateLoop is called, which returns at once if the guard is set
\* and otherwise pops the head of the queue and starts its fetch.  With the
\* market closed or s queued already, the queue and the drain loop are left
\* as they are.
C22_FastPathEnqueues ==
    [][\A s \in Symbols :
         (last'.op = "fastDone" /\ last'.sym = s /\ last'.ok) =>
            IF marketOpen /\ ~Includes(updateQueue, s)
            THEN IF isUpdatingPriceLoop
                 THEN /\ updateQueue' = Append(updateQueue, s)
                      /\ UNCHANGED <<isUpdatingPriceLoop, drainInFlight>>
                 ELSE /\ isUpdatingPriceLoop'
                      /\ \E t \in Symbols :
                            /\ drainInFlight' = [drainInFlight EXCEPT ![t] = @ + 1]
                            /\ <<t>> \o updateQueue' = Append(updateQueue, s)
            ELSE UNCHANGED <<updateQueue, isUpdatingPriceLoop, drainInFlight>>]_vars

\* C22 witness: the fast path pushed its ticker on the empty queue of an idle
\* drain loop, and the kick started the drain fetch of that ticker.
C22_KickedIdleLoop ==
    /\ last.op = "fastDone" /\ last.ok /\ last.loop = "popped"
    /\ isUpdatingPriceLoop
    /\ drainInFlight[last.sym] = 1
    /\ updateQueue = <<>>

\* C23: every value of trackedTickers other than the pending marker is a
\* positive number, and every notification carries a positive number: never
\* zero, never the pending marker, never the null of a failed fetch.
C23_PricesPositive ==
    /\ \A i \in 1..Len(trackedTickers) :
          trackedTickers[i][2] = PENDING \/ trackedTickers[i][2] > 0
    /\ last.pub # <<>> => last.pub[2] > 0

\* C23 witness: a price was recorded and published for one symbol while the
\* other symbol holds the pending marker.
C23_PriceBesidePlaceholder ==
    /\ last.ok /\ last.pub # <<>>
    /\ MapHas(trackedTickers, last.sym)
    /\ MapGet(trackedTickers, last.sym) = last.pub[2]
    /\ \E t \in Symbols :
          t # last.sym /\ MapHas(trackedTickers, t) /\ MapGet(trackedTickers, t) = PENDING

\* C24: if from some time on the market stays open and s stays a key of
\* trackedTickers, then, timers firing and oracle calls returning, a drain
\* fetch for s is in flight again and again.  (Checked under SpecLive.)
C24_DrainFetchesForever ==
    \A s \in Symbols :
        <>[](marketOpen /\ MapHas(trackedTickers, s)) => []<>(drainInFlight[s] > 0)

\* C24 witness: with two symbols tracked and the market open, the drain fetch
\* of the second one is in flight and the queue is empty, so that the next
\* step refills.
C24_SecondInRotation ==
    /\ watch = "none"
    /\ marketOpen
    /\ Len(trackedTickers) = 2
    /\ drainInFlight[trackedTickers[2][1]] = 1
    /\ updateQueue = <<>>

\* C25: as long as a drain fetch has not returned, the guard stays set and
\* no run starts another drain fetch: every step other than the resumption
\* after that fetch, be it a tick, a fast-path kick, a timer or the passing
\* of time, leaves both as they are.
C25_UnresolvedFetchStalls ==
    [][(Sum(drainInFlight) >= 1 /\ last'.op # "drainDone")
          => /\ isUpdatingPriceLoop /\ isUpdatingPriceLoop'
             /\ drainInFlight' = drainInFlight]_vars

\* C25 witness: a whole tick interval has passed with the drain fetch still
\* outstanding; the guard is set and no pacing timer is pending.
C25_StalledForAnInterval ==
    /\ last.op = "time"
    /\ tickWait = 0
    /\ isUpdatingPriceLoop /\ Sum(drainInFlight) = 1
    /\ pacingTimers = <<>>

\* C26: a sweep starts with the key sequence of trackedTickers, each key
\* once, and fetches its head; every later step leaves what it has still to
\* visit alone, or moves it from the fetch to the delay, or from the delay to
\* the fetch of the next symbol; after the delay of the last symbol the
\* sweep is over.  So it fetches the symbols of its start, in order, once
\* each, and no symbol added later.
C26_SweepVisitsSnapshotOnce ==
    [][\/ /\ Len(sweeps') = Len(sweeps) + 1
          /\ SubSeq(sweeps', 1, Len(sweeps)) = sweeps
          /\ sweeps'[Len(sweeps')] =
                [phase |-> "fetch", todo |-> MapKeys(trackedTickers), wait |-> 0]
          /\ NoDuplicates(MapKeys(trackedTickers))
       \/ /\ Len(sweeps') = Len(sweeps)
          /\ \A i \in 1..Len(sweeps) :
                \/ /\ sweeps'[i].todo = sweeps[i].todo
                   /\ sweeps'[i].phase = sweeps[i].phase
                \/ /\ sweeps'[i].todo = sweeps[i].todo
                   /\ sweeps[i].phase = "fetch" /\ sweeps'[i].phase = "sleep"
                   /\ last'.op = "sweepDone" /\ last'.sym = Head(sweeps[i].todo)
                \/ /\ sweeps'[i].todo = Tail(sweeps[i].todo)
                   /\ sweeps[i].phase = "sleep" /\ sweeps'[i].phase = "fetch"
       \/ \E i \in 1..Len(sweeps) :
             /\ sweeps[i].phase = "sleep" /\ Len(sweeps[i].todo) = 1
             /\ sweeps' = RemoveAt(sweeps, i)]_vars

\* C26 witness: a symbol was added while a sweep was visiting the only key
\* of its start; the sweep has nothing more to visit.
C26_AddedDuringSweep ==
    /\ last.op = "add"
    /\ Len(trackedTickers) = 2
    /\ last.sym = trackedTickers[2][1]
    /\ \E i \in 1..Len(sweeps) : sweeps[i].todo = <<trackedTickers[1][1]>>

\* C27: at any time at most one pacing timer armed by priceUpdateLoop is
\* pending.
C27_OnePacingTimer == Len(pacingTimers) <= 1

\* C28: every symbol in updateQueue is a key of trackedTickers.
C28_QueuedAreTracked ==
    \A i \in 1..Len(updateQueue) : MapHas(trackedTickers, updateQueue[i])

\* C29: the guard is set exactly when one drain fetch is in flight, and
\* never more than one is.
C29_GuardIffOneDrainFetch ==
    /\ isUpdatingPriceLoop <=> Sum(drainInFlight) = 1
    /\ Sum(drainInFlight) \in {0, 1}

\* C29 witness: the fast-path kick has just set the guard and started the
\* one drain fetch, while a pacing timer of an earlier step is pending.
C29_GuardSetByKick ==
    /\ last.op = "fastDone" /\ last.loop \in {"popped", "refilled"}
    /\ isUpdatingPriceLoop
    /\ Sum(drainInFlight) = 1
    /\ Len(pacingTimers) = 1

\* The fetches for s in flight, on all three paths.
FetchesInFlight(s) ==
    fastInFlight[s] + drainInFlight[s]
       + Cardinality({i \in SweepFetches : Head(sweeps[i].todo) = s})

\* C30: at no instant are two fetches for the same symbol in flight.
C30_OneFetchPerSymbol == \A s \in Symbols : FetchesInFlight(s) <= 1

\* The queries in the list h.
Entries(h) == {h[i] : i \in 1..Len(h)}

\* addToHistory(query) put query in the history.
Added(query) == addToHistory(query) /\ ~Includes(favorites, query)

\* The entries of h that are in kept, in the order of h.
Remaining(h, kept) ==
    LET entries == Entries(kept)
        Kept(x) == x \in entries
    IN  SelectSeq(h, Kept)

\* C31: starting from empty lists, after every call of addToHistory,
\* handleAddToFavorites, handleRemoveFromFavorites or handleClearHistory the
\* history has no duplicate query, no query that is in favorites and at most
\* 50 entries, and it runs from the most recently added query to the least
\* recently added one: an added query comes first, and the entries that
\* stay keep their order.
C31_HistoryNewestFirst ==
    [][/\ Cardinality(Entries(searchHistory')) = Len(searchHistory')
       /\ Entries(searchHistory') \cap Entries(favorites') = {}
       /\ Len(searchHistory') <= HistoryLimit
       /\ LET added == {query \in Typed : Added(query)} IN
             IF added # {}
             THEN /\ Head(searchHistory') \in added
                  /\ Tail(searchHistory') = Remaining(searchHistory, Tail(searchHistory'))
             ELSE searchHistory' = Remaining(searchHistory, searchHistory')]_vars

\* C31 witness: with a query in favorites, the history is full, the last
\* other query is first and the first one typed has been dropped from the end.
C31_FullHistory ==
    /\ favorites # <<>>
    /\ Len(searchHistory) = HistoryLimit
    /\ Head(searchHistory) = NamedQueries + OtherQueries
    /\ ~Includes(searchHistory, NamedQueries + 1)

====
